---------------------------- MODULE Spec2Model ----------------------------
(***************************************************************************)
(* SymmetricMorph: a byte-oriented stream cipher with a 64-byte diffusion  *)
(* state, a counter-based keystream generator and an accumulator tag.      *)
(* The operators below follow src/src/SymmetricMorph.ts function by        *)
(* function; arrays are functions on 0..n-1 where the code indexes them    *)
(* and sequences where the code slices or concatenates them.               *)
(***************************************************************************)
EXTENDS Integers, Sequences, FiniteSets, TLC

(***************************************************************************)
(* JavaScript's bitwise operators on the non-negative integers the cipher  *)
(* handles (every operand stays far below 2^31).                           *)
(***************************************************************************)
RECURSIVE BitXorRec(_, _)
BitXorRec(a, b) ==
    IF a = 0 THEN b
    ELSE IF b = 0 THEN a
    ELSE (((a % 2) + (b % 2)) % 2) + 2 * BitXorRec(a \div 2, b \div 2)

RECURSIVE BitOrRec(_, _)
BitOrRec(a, b) ==
    IF a = 0 THEN b
    ELSE IF b = 0 THEN a
    ELSE (IF a % 2 = 1 \/ b % 2 = 1 THEN 1 ELSE 0) + 2 * BitOrRec(a \div 2, b \div 2)

RECURSIVE BitAndRec(_, _)
BitAndRec(a, b) ==
    IF a = 0 \/ b = 0 THEN 0
    ELSE (IF a % 2 = 1 /\ b % 2 = 1 THEN 1 ELSE 0) + 2 * BitAndRec(a \div 2, b \div 2)

\* the three operators on the low bytes, tabulated once; wider operands are
\* combined byte by byte
XorTable == [a \in 0..255 |-> [b \in 0..255 |-> BitXorRec(a, b)]]
OrTable == [a \in 0..255 |-> [b \in 0..255 |-> BitOrRec(a, b)]]
AndTable == [a \in 0..255 |-> [b \in 0..255 |-> BitAndRec(a, b)]]

RECURSIVE Xor(_, _)
\* a ^ b
Xor(a, b) ==
    IF a < 256 /\ b < 256 THEN XorTable[a][b]
    ELSE XorTable[a % 256][b % 256] + 256 * Xor(a \div 256, b \div 256)

RECURSIVE Or(_, _)
\* a | b
Or(a, b) ==
    IF a < 256 /\ b < 256 THEN OrTable[a][b]
    ELSE OrTable[a % 256][b % 256] + 256 * Or(a \div 256, b \div 256)

RECURSIVE And(_, _)
\* a & b
And(a, b) ==
    IF a < 256 /\ b < 256 THEN AndTable[a][b]
    ELSE AndTable[a % 256][b % 256] + 256 * And(a \div 256, b \div 256)

\* a << k
Shl(a, k) == a * (2 ^ k)

\* a >> k and a >>> k (the same on non-negative operands)
Shr(a, k) == a \div (2 ^ k)

\* (~a) & 0xFF for a byte a: the low eight bits of -a-1
NotByte(a) == (255 - (a % 256)) % 256

\* the code's 0xFF
Byte == 255

(***************************************************************************)
(* Arrays.  A JavaScript array a of length n is the sequence               *)
(* <<a[0], ..., a[n-1]>>; at(a, i) reads a[i] and put(a, i, v) is the      *)
(* array after a[i] = v.                                                   *)
(***************************************************************************)
at(a, i) == a[i + 1]

put(a, i, v) == [a EXCEPT ![i + 1] = v]

\* the array a[0], ..., a[n-1] of a function a on 0..n-1
arrayOf(a, n) == SubSeq([k \in 1..n |-> a[k - 1]], 1, n)

(***************************************************************************)
(* createPrng: the 64-entry table and the call counter of the closure.     *)
(***************************************************************************)
createPrng(seed) ==
    [state   |-> arrayOf([i \in 0..63 |->
                            Xor(at(seed, i % Len(seed)), (i * 97) % 256)], 64),
     counter |-> 0]

\* prngNext without the & 0xFF on the value returned
prngNextUnmasked(p) ==
    LET counter == p.counter
        i   == counter % 64
        j   == (counter * 5 + 11) % 64
        k   == (counter * 7 + 17) % 64
        val == at(p.state, i) + Xor(at(p.state, j), Shr(at(p.state, k), 3)) + counter
    IN  [val  |-> val,
         prng |-> [state   |-> put(p.state, i,
                                   And(Xor(at(p.state, i), Shl(val, counter % 7)), Byte)),
                   counter |-> counter + 1]]

\* one call of the closure: the byte it returns and the closure afterwards
prngNext(p) ==
    LET counter == p.counter
        i   == counter % 64
        j   == (counter * 5 + 11) % 64
        k   == (counter * 7 + 17) % 64
        val == And(at(p.state, i) + Xor(at(p.state, j), Shr(at(p.state, k), 3))
                   + counter, Byte)
    IN  [val  |-> val,
         prng |-> [state   |-> put(p.state, i,
                                   And(Xor(at(p.state, i), Shl(val, counter % 7)), Byte)),
                   counter |-> counter + 1]]

(***************************************************************************)
(* initState / updateState: the diffusion state.  Each pass of updateState *)
(* writes state[i] from state[i] alone (the permutation from a snapshot),  *)
(* so a pass is the array of its per-index results.                        *)
(***************************************************************************)
initState(key) ==
    arrayOf([i \in 0..63 |-> And(Xor(at(key, i % Len(key)), i * 67 + 19), Byte)], 64)

\* lines 175-176: one index of the first pass
phase1At(s, rotated, mixed, i) ==
    LET x == Xor(s, And(rotated + mixed + (i * 31), Byte))
    IN  And(Or(Shl(x, i % 5), Shr(x, 8 - (i % 5))), Byte)

\* lines 174-177
updatePhase1(state, rotated, mixed) ==
    arrayOf([i \in 0..(Len(state) - 1) |-> phase1At(at(state, i), rotated, mixed, i)],
            Len(state))

\* the index map with an even multiplier
swapIndexEven(i, iteration, len) == (i * 12 + iteration) % len

\* line 182: where position i takes its byte from
swapIndex(i, iteration, len) == (i * 13 + iteration) % len

\* lines 179-185: every fourth iteration, permute a snapshot
updatePhase2(state, inv, iteration) ==
    IF iteration % 4 = 3
    THEN arrayOf([i \in 0..(Len(state) - 1) |->
                    And(Xor(at(state, swapIndex(i, iteration, Len(state))), inv), Byte)],
                 Len(state))
    ELSE state

\* lines 188-189: one index of the reverse pass
phase3At(s, inv, feedback, i) ==
    LET x == And(s + Xor(Xor(inv, i * 17), feedback), Byte)
    IN  And(Or(Shr(x, i % 7), Shl(x, 8 - (i % 7))), Byte)

\* lines 187-190
updatePhase3(state, inv, feedback) ==
    arrayOf([i \in 0..(Len(state) - 1) |-> phase3At(at(state, i), inv, feedback, i)],
            Len(state))

updateState(state, rotated, feedback, r, iteration, prev1, prev2, prev3) ==
    LET inv   == NotByte(rotated)
        mixed == And(Xor(Xor(Xor(Xor(prev1, prev2), prev3), feedback), r), Byte)
        s1    == updatePhase1(state, rotated, mixed)
        s2    == updatePhase2(s1, inv, iteration)
    IN  updatePhase3(s2, inv, feedback)

(***************************************************************************)
(* The clock.  Date.now() is beyond TLC's 32-bit integers, so a reading t  *)
(* is kept as [hi, lo] with t = hi * 2^24 + lo and 0 <= lo < 2^24.         *)
(***************************************************************************)
ClockReading(hi, lo) == [hi |-> hi, lo |-> lo]

\* (t >> (8*k)) & 0xff for k in 0..3: >> works on the low 32 bits of t
ClockByte(t, k) ==
    IF k = 3 THEN t.hi % 256 ELSE And(Shr(t.lo, 8 * k), Byte)

\* t % m for a small modulus m
ClockMod(t, m) == (((t.hi % m) * ((2 ^ 24) % m)) + (t.lo % m)) % m

generateNonce(t) ==
    << ClockByte(t, 0), ClockByte(t, 1), ClockByte(t, 2), ClockByte(t, 3),
       ClockMod(t, 251), ClockMod(t, 241), ClockMod(t, 239), ClockMod(t, 233) >>

(***************************************************************************)
(* generateMac and constantTimeCompare.                                    *)
(***************************************************************************)
\* a tag whose position term is i * i * 19
generateMacSquared(macAcc, key) ==
    arrayOf([i \in 0..31 |->
               And(Xor(Xor(macAcc, at(key, i % Len(key))), i * i * 19), Byte)], 32)

generateMac(macAcc, key) ==
    arrayOf([i \in 0..31 |-> And(Xor(Xor(macAcc, at(key, i % Len(key))), i * 19), Byte)],
            32)

RECURSIVE compareAcc(_, _, _, _)
\* the loop of lines 327-329 from index i on, result so far in acc
compareAcc(a, b, i, acc) ==
    IF i > Len(a) THEN acc
    ELSE compareAcc(a, b, i + 1, Or(acc, Xor(a[i], b[i])))

\* constantTimeCompare without the length check of line 325
compareNoLength(a, b) == compareAcc(a, b, 1, 0) = 0

constantTimeCompare(a, b) ==
    IF Len(a) # Len(b) THEN FALSE ELSE compareAcc(a, b, 1, 0) = 0

(***************************************************************************)
(* The byte loop shared by encrypt and decrypt.  A loop state holds the    *)
(* locals of one call: generator, diffusion state, feedback, trackers,     *)
(* accumulator, and the bytes pushed so far.                               *)
(***************************************************************************)
\* the locals with the generator seeded from nonce ++ key
loopInitNonceFirst(key, nonce) ==
    [prng     |-> createPrng(nonce \o key),
     state    |-> initState(key),
     feedback |-> 165,
     prev1    |-> 108,
     prev2    |-> 58,
     prev3    |-> 145,
     macAcc   |-> 157,
     out      |-> << >>]

loopInit(key, nonce) ==
    [prng     |-> createPrng(key \o nonce),
     state    |-> initState(key),
     feedback |-> 165,
     prev1    |-> 108,
     prev2    |-> 58,
     prev3    |-> 145,
     macAcc   |-> 157,
     out      |-> << >>]

\* lines 60-62 / 104-106: the masking position and the mask
maskPos(ls, i) == (i + ls.feedback + ls.prev1 + ls.prev2) % Len(ls.state)

maskOf(ls, i) ==
    And(Xor(Xor(Xor(Xor(at(ls.state, maskPos(ls, i)), ls.feedback), ls.prev1), ls.prev2),
            ls.prev3), Byte)

\* encByte without the & 0xFF on the rotated byte
encByteUnmasked(plainByte, mask, r, i) ==
    LET mixed == And(Xor(Xor(plainByte, mask), r), Byte)
    IN  Or(Shl(mixed, i % 5), Shr(mixed, 8 - (i % 5)))

\* lines 63-64: plaintext byte to ciphertext byte
encByte(plainByte, mask, r, i) ==
    LET mixed == And(Xor(Xor(plainByte, mask), r), Byte)
    IN  And(Or(Shl(mixed, i % 5), Shr(mixed, 8 - (i % 5))), Byte)

\* decByte without the rotation undone
decByteNoUnrotate(rotated, mask, r, i) ==
    And(Xor(Xor(rotated, mask), r), Byte)

\* lines 107-109: ciphertext byte to plaintext byte
decByte(rotated, mask, r, i) ==
    LET unrotated == And(Or(Shr(rotated, i % 5), Shl(rotated, 8 - (i % 5))), Byte)
    IN  And(Xor(Xor(unrotated, mask), r), Byte)

\* lines 67-74 / 112-119: what both loops do once the ciphertext byte is known
loopTail(ls, nextPrng, r, rotated, pushed, i) ==
    LET feedback == And(Xor(Xor(Xor(ls.feedback, rotated), r), i * 13), Byte)
        prev1    == rotated
        prev2    == ls.prev1
    IN  [prng     |-> nextPrng,
         state    |-> updateState(ls.state, rotated, ls.feedback, r, i,
                                  ls.prev1, ls.prev2, ls.prev3),
         feedback |-> feedback,
         prev1    |-> prev1,
         prev2    |-> prev2,
         prev3    |-> ls.prev2,
         macAcc   |-> And(Xor(ls.macAcc + rotated + feedback + (i * 31),
                              r + prev1 + prev2), Byte),
         out      |-> Append(ls.out, pushed)]

\* encStep with the plaintext byte, not the ciphertext byte, fed back
encStepFeedsPlain(ls, plainByte, i) ==
    LET n       == prngNext(ls.prng)
        rotated == encByte(plainByte, maskOf(ls, i), n.val, i)
    IN  loopTail(ls, n.prng, n.val, plainByte, rotated, i)

\* one iteration of encrypt's loop (i counts from 0)
encStep(ls, plainByte, i) ==
    LET n       == prngNext(ls.prng)
        rotated == encByte(plainByte, maskOf(ls, i), n.val, i)
    IN  loopTail(ls, n.prng, n.val, rotated, rotated, i)

\* one iteration of decrypt's loop (i counts from 0)
decStep(ls, rotated, i) ==
    LET n     == prngNext(ls.prng)
        plain == decByte(rotated, maskOf(ls, i), n.val, i)
    IN  loopTail(ls, n.prng, n.val, rotated, plain, i)

RECURSIVE encLoop(_, _)
\* lines 58-75: the loop from its current index i = encrypted.length on
encLoop(ls, plainBytes) ==
    LET i == Len(ls.out)
    IN  IF i >= Len(plainBytes) THEN ls
        ELSE encLoop(encStep(ls, at(plainBytes, i), i), plainBytes)

RECURSIVE decLoop(_, _)
\* lines 102-120: the loop from its current index i = decrypted.length on
decLoop(ls, cipherData) ==
    LET i == Len(ls.out)
    IN  IF i >= Len(cipherData) THEN ls
        ELSE decLoop(decStep(ls, at(cipherData, i), i), cipherData)

\* Array.prototype.slice(from, to) on a sequence, indices from 0, to exclusive
slice(s, from, to) ==
    LET lo == IF from > Len(s) THEN Len(s) ELSE from
        hi == IF to > Len(s) THEN Len(s) ELSE to
    IN  IF hi <= lo THEN << >> ELSE SubSeq(s, lo + 1, hi)

(***************************************************************************)
(* encrypt and decrypt.  t is the reading Date.now() returns to the call.  *)
(***************************************************************************)
\* encrypt with the tag put before the nonce
encryptTagFirst(key, plainBytes, t) ==
    LET nonce == generateNonce(t)
        ls    == encLoop(loopInit(key, nonce), plainBytes)
        mac   == generateMac(ls.macAcc, key)
    IN  mac \o nonce \o ls.out

encrypt(key, plainBytes, t) ==
    LET nonce == generateNonce(t)
        ls    == encLoop(loopInit(key, nonce), plainBytes)
        mac   == generateMac(ls.macAcc, key)
    IN  nonce \o mac \o ls.out

MacError == "MAC verification failed (integrity broken)"

\* the calls decrypt makes on every input before it may throw (lines 93, 94, 122, 124)
DecryptWork == << "createPrng", "initState", "generateMac", "constantTimeCompare" >>

\* what a call gives back: a returned value, or a thrown Error with its message;
\* did lists the cryptographic calls made on the way
Returned(v, did) == [kind |-> "return", value |-> v, message |-> "", did |-> did]
Thrown(m, did) == [kind |-> "throw", value |-> << >>, message |-> m, did |-> did]
NoCall == [kind |-> "none", value |-> << >>, message |-> "", did |-> << >>]

decrypt(key, encryptedBytes) ==
    LET nonce       == slice(encryptedBytes, 0, 8)
        mac         == slice(encryptedBytes, 8, 8 + 32)
        cipherData  == slice(encryptedBytes, 8 + 32, Len(encryptedBytes))
        ls          == decLoop(loopInit(key, nonce), cipherData)
        expectedMac == generateMac(ls.macAcc, key)
    IN  IF ~constantTimeCompare(mac, expectedMac)
        THEN Thrown(MacError, DecryptWork)
        ELSE Returned(ls.out, DecryptWork)

(***************************************************************************)
(* encryptChunks and decryptChunks: Array.prototype.map over the chunks.   *)
(* ts[k] is the reading Date.now() returns to the k-th encrypt call.  A    *)
(* callback that throws ends the map: nothing is returned.                 *)
(***************************************************************************)
\* every chunk encrypted under the reading of the first call
encryptChunksOneReading(key, chunks, ts) ==
    [k \in 1..Len(chunks) |-> encrypt(key, chunks[k], ts[1])]

encryptChunks(key, chunks, ts) ==
    [k \in 1..Len(chunks) |-> encrypt(key, chunks[k], ts[k])]

RECURSIVE decryptMap(_, _, _)
\* the map from chunk k on, done the chunks already decrypted
decryptMap(key, chunks, done) ==
    LET k == Len(done) + 1
    IN  IF k > Len(chunks) THEN Returned(done, << >>)
        ELSE LET r == decrypt(key, chunks[k])
             IN  IF r.kind = "throw" THEN Thrown(r.message, << >>)
                 ELSE decryptMap(key, chunks, Append(done, r.value))

\* the plaintexts delivered last chunk first
decryptChunksReversed(key, chunks) ==
    LET r == decryptMap(key, chunks, << >>)
    IN  IF r.kind = "return"
        THEN Returned([k \in 1..Len(r.value) |-> r.value[Len(r.value) + 1 - k]], << >>)
        ELSE r

decryptChunks(key, chunks) == decryptMap(key, chunks, << >>)

(***************************************************************************)
(* Key construction: strToBytes, generateSalt, deriveKey, fromPassword,    *)
(* fromKey.  A string is the sequence of its code points.                  *)
(***************************************************************************)
\* c.charCodeAt(0) of one element of Array.from(str): the code unit of a BMP
\* character, the high surrogate of any other
charCodeAt0(cp) ==
    IF cp < 65536 THEN cp ELSE 55296 + ((cp - 65536) \div 1024)

strToBytes(str) == [k \in 1..Len(str) |-> charCodeAt0(str[k])]

RECURSIVE draw(_, _, _)
\* Array.from({ length }, () => prng()): length successive draws
draw(prng, length, got) ==
    IF Len(got) >= length THEN got
    ELSE LET n == prngNext(prng)
         IN  draw(n.prng, length, Append(got, n.val))

\* generateKey seeded with the low 16 bits of the clock
generateKeyWideSeed(length, t) ==
    draw(createPrng(<< ClockByte(t, 0) + 256 * ClockByte(t, 1) >>), length, << >>)

\* t is the reading Date.now() returns; the seed is [Date.now() & 0xFF]
generateKey(length, t) ==
    draw(createPrng(<< ClockByte(t, 0) >>), length, << >>)

\* perfNow is performance.now() | 0
generateSalt(length, perfNow) ==
    LET t    == perfNow
        seed == << And(t, Byte), And(Shr(t, 8), Byte), And(Shr(t, 16), Byte) >>
    IN  draw(createPrng(seed), length, << >>)

RECURSIVE xorAll(_, _)
\* next.reduce((a, b) => a ^ b, 0) over the first n elements
xorAll(next, n) ==
    IF n = 0 THEN 0 ELSE Xor(xorAll(next, n - 1), next[n])

RECURSIVE deriveRounds(_, _, _, _)
\* lines 235-239 from round i on: the buffer and the running state after the rounds
deriveRounds(data, state, i, rounds) ==
    IF i >= rounds THEN [data |-> data, state |-> state]
    ELSE LET next == arrayOf([j \in 0..(Len(data) - 1) |->
                                Xor(at(data, j), state + (j * 7) + i) % 256], Len(data))
         IN  deriveRounds(next, (state + xorAll(next, Len(next))) % 256, i + 1, rounds)

deriveKey(pass, salt, rounds, length) ==
    LET d == deriveRounds(pass \o salt, 0, 0, rounds)
    IN  arrayOf([i \in 0..(length - 1) |->
                   Xor(at(d.data, i % Len(d.data)), ((i * 37) + d.state) % 256)], length)

\* what fromPassword builds: the instance's key; salt is a local of the call
\* and is not part of what it returns
fromPassword(password, iterations, keyLength, perfNow) ==
    LET salt == generateSalt(24, perfNow)
        key  == deriveKey(strToBytes(password), salt, iterations, keyLength)
    IN  [key |-> key]

\* fromKey handing the caller's array itself to the constructor
fromKeyNoCopy(key) == [key |-> key, sameArray |-> TRUE]

\* new SymmetricMorph([...key]): the instance's key is a new array with the
\* elements of the caller's
fromKey(key) == [key |-> [k \in 1..Len(key) |-> key[k]], sameArray |-> FALSE]

(***************************************************************************)
(* The inputs of the model.                                                *)
(***************************************************************************)
\* Date.now() of the runs is ClockHi * 2^24 + now
ClockHi == 106700
\* the clock advances at most this far
MaxTicks == 1
\* plaintexts have at most this many bytes
MaxLen == 2

PlainBytes == {72, 105}

RECURSIVE SeqsUpTo(_, _)
\* the sequences over S of length at most n
SeqsUpTo(S, n) ==
    IF n = 0 THEN {<< >>}
    ELSE LET shorter == SeqsUpTo(S, n - 1)
         IN  shorter \cup {Append(x, b) : x \in {y \in shorter : Len(y) = n - 1}, b \in S}

Plaintexts == SeqsUpTo(PlainBytes, MaxLen)

\* "pw", and "P" followed by U+1F600
Passwords == {<<112, 119>>, <<80, 128512>>}

\* the password of the derived key of the model's instances
Password == <<80, 128512>>

RawKeys == {<<108>>, <<7, 200, 33>>}

\* the iterations and keyLength the model passes to fromPassword
Iterations == 2
KeyLength == 4
\* performance.now() | 0 advances at most this far
MaxPerf == 2

\* keys of instances built by fromPassword(Password, Iterations, KeyLength)
\* at performance.now() = 1234
DerivedKeys == {fromPassword(Password, Iterations, KeyLength, 1234).key}

Keys == {fromKey(k).key : k \in RawKeys} \cup DerivedKeys

\* encryptChunks takes at most this many chunks
MaxChunks == 3

ChunkTexts == {<<72>>, <<105, 72>>}

ChunkLists == SeqsUpTo(ChunkTexts, MaxChunks)

ChunkKeys == {fromKey(<<7, 200, 33>>).key} \cup DerivedKeys

\* what is done to a chunk's record, as << byte, mask >>: bit 0 of the first
\* byte of nonce or tag flipped, or encrypted[20] ^= 0xFF
ChunkFlips == {<<0, 1>>, <<8, 1>>, <<20, 255>>}

\* the plaintext of a single encrypt call next to the chunked ones
SinglePlain == <<72>>

\* a key as long as the generator's table, and the same key with one more byte
LongKey == [i \in 1..64 |-> ((i - 1) * 7 + 3) % 256]

KeyPool ==
    {fromKey(k).key : k \in {<<108>>, <<109>>, LongKey, LongKey \o <<9>>}}
        \cup {fromPassword(pw, Iterations, KeyLength, 1234).key : pw \in Passwords}

\* generateKey is asked for at most this many bytes
MaxKeyLen == 3

\* the low parts of the clock readings of a first generateKey call
KeyGenClocks == 0..255

\* how many milliseconds after the first call a second one reads the clock
KeyGenWaits == {0, 1, 256, 65536}

\* the arguments the model passes to deriveKey: the bytes of a password,
\* a 24-byte salt, the rounds, the key length
DerivePasswords == {<< >>} \cup {strToBytes(pw) : pw \in Passwords}
DeriveSalts == {generateSalt(24, p) : p \in {0, 1}}
DeriveRounds == {0, Iterations}
DeriveLengths == {0, KeyLength}

\* what the instance whose key must stay the same is given to work on
ReusePlain == <<72, 105>>
ReuseChunks == << <<72>>, <<105, 72>> >>

\* at most this many calls are in progress on one instance
MaxCalls == 2

\* the plaintext of the calls in progress
CallPlain == <<72, 105>>

\* plaintexts long enough for the loop to pass an iteration with i mod 4 = 3
LoopPlains == {<<72, 105, 33, 10, 200>>, <<255, 0, 255, 0>>}

\* the arrays constantTimeCompare is stepped on have at most this many elements
MaxTagLen == 2

CompareBytes == {0, 129, 255}

CompareTags == SeqsUpTo(CompareBytes, MaxTagLen)

\* updateState is followed through this many loop iterations
MaxIterations == 8

\* the plaintexts of the encrypt calls whose updateState calls are followed
PermPlains ==
    {<<72, 105, 33, 10, 200, 1, 2, 3>>,
     [i \in 1..MaxIterations |-> 255],
     [i \in 1..MaxIterations |-> (i * 37) % 256]}

\* keys of 64 and of 65 bytes
LongKeys == {fromKey(k).key : k \in {LongKey, LongKey \o <<9>>}}

\* an 8-byte nonce no clock reading of the model gives
ZeroNonce == [i \in 1..8 |-> 0]

\* the bits of a byte the model flips
FlipBits == {0, 3, 7}

\* input lengths below the 40 bytes of nonce and tag
CutLengths == {0, 7, 8, 39}

Reading(lo) == ClockReading(ClockHi, lo)

(***************************************************************************)
(* State.                                                                  *)
(***************************************************************************)
VARIABLES
    key,          \* the instance's private readonly key (<< >>: no instance yet)
    now,          \* the low part of the clock Date.now() reads
    plain,        \* the plaintext of the last encrypt call
    stamp,        \* the clock reading that call took
    record,       \* the record that call returned (<< >>: none yet)
    wire,         \* the bytes that reach decrypt: record, or record tampered with
    tamper,       \* what was done to wire since encrypt returned it
    outcome,      \* what the last decrypt call on wire gave back
    chunks,       \* the chunks of the last encryptChunks call
    chunkWires,   \* the records it returned, as they reach decryptChunks
    chunkTamper,  \* what was done to chunkWires since
    chunkOutcome, \* what the last decryptChunks call gave back
    calls,        \* the encrypt calls of encryptChunks: clock reading and nonce embedded
    otherKey,     \* the key of a second instance (<< >>: none yet)
    otherRecord,  \* what the second instance's encrypt returned for plain
    otherOutcome, \* what the second instance's decrypt gave back for record
    password,     \* the password the instances were built from
    perf,         \* performance.now() | 0
    lastSalt,     \* the local salt of the last fromPassword call
    saltSeen,     \* what asking the instance for its salt gave back
    keyCalls,     \* the generateKey calls so far: reading, length, key returned
    derivations,  \* the deriveKey calls so far: arguments, clocks, locals, key
    cmp,          \* the constantTimeCompare call in progress
    perm,         \* the diffusion state under updateState's permutation pass
    callerKey,    \* the array the caller passed to fromKey
    keyShared,    \* whether the instance's key is that same array object
    earlier,      \* what the decrypt call before the last one gave back
    inflight      \* the encrypt and decrypt calls in progress, with their locals

recordVars == << plain, stamp, record, wire, tamper, outcome >>
chunkVars == << chunks, chunkWires, chunkTamper, chunkOutcome, calls >>
peerVars == << otherKey, otherRecord, otherOutcome >>
pwVars == << password, perf, lastSalt, saltSeen >>
staticVars == << keyCalls, derivations, cmp, perm >>
instanceVars == << callerKey, keyShared, earlier, inflight >>

vars ==
    << key, now, recordVars, chunkVars, peerVars, pwVars, staticVars, instanceVars >>

Untouched == [kind |-> "none", byte |-> 0, mask |-> 0]

ChunksIdle == [kind |-> "idle", chunk |-> 0, byte |-> 0, mask |-> 0]

ChunksUntouched == [kind |-> "none", chunk |-> 0, byte |-> 0, mask |-> 0]

\* no constantTimeCompare call in progress
NoCompare ==
    [pc |-> "idle", a |-> << >>, b |-> << >>, i |-> 0, result |-> 0, steps |-> 0,
     answer |-> FALSE]

\* no encrypt call followed through updateState yet
NoPermutation ==
    [pc |-> "idle", plain |-> << >>, ls |-> << >>, state |-> << >>, iteration |-> 0,
     before |-> << >>, rotated |-> 0, inv |-> 0, mixed |-> 0]

\* nothing has been called on the instances yet
NothingCalled ==
    /\ now = 0
    /\ plain = << >>
    /\ stamp = Reading(0)
    /\ record = << >>
    /\ wire = << >>
    /\ tamper = Untouched
    /\ outcome = NoCall
    /\ chunks = << >>
    /\ chunkWires = << >>
    /\ chunkTamper = ChunksIdle
    /\ chunkOutcome = NoCall
    /\ calls = << >>
    /\ otherKey = << >>
    /\ otherRecord = << >>
    /\ otherOutcome = NoCall
    /\ password = << >>
    /\ perf = 0
    /\ lastSalt = << >>
    /\ saltSeen = NoCall
    /\ keyCalls = << >>
    /\ derivations = << >>
    /\ cmp = NoCompare
    /\ perm = NoPermutation
    /\ callerKey = << >>
    /\ keyShared = FALSE
    /\ earlier = NoCall
    /\ inflight = << >>

\* an instance built by fromKey or fromPassword
Init ==
    /\ key \in Keys
    /\ NothingCalled

\* a millisecond passes
Tick ==
    /\ now < MaxTicks
    /\ record = << >> \/ (otherKey # << >> /\ otherRecord = << >>)
    /\ chunkTamper = ChunksIdle
    /\ now' = now + 1
    /\ UNCHANGED << staticVars, instanceVars,
                    key, recordVars, chunkVars, peerVars, pwVars >>

\* cipher.encrypt(x)
Encrypt(x) ==
    /\ key # << >>
    /\ record = << >>
    /\ plain' = x
    /\ stamp' = Reading(now)
    /\ record' = encrypt(key, x, Reading(now))
    /\ wire' = record'
    /\ tamper' = Untouched
    /\ outcome' = NoCall
    /\ calls' = Append(calls, [chunk |-> 0, t |-> Reading(now),
                                nonce |-> slice(record', 0, 8)])
    /\ UNCHANGED << staticVars, instanceVars,
                    key, now, chunks, chunkWires, chunkTamper, chunkOutcome,
                    peerVars, pwVars >>

\* encrypted[p] ^= m on the record's way to decrypt: the bits of m are flipped
\* in byte p
Corrupt(p, m) ==
    /\ record # << >>
    /\ tamper = Untouched
    /\ p < Len(wire)
    /\ wire' = put(wire, p, Xor(at(wire, p), m))
    /\ tamper' = [kind |-> "flip", byte |-> p, mask |-> m]
    /\ outcome' = NoCall
    /\ UNCHANGED << staticVars, instanceVars,
                    key, now, plain, stamp, record, chunkVars, peerVars, pwVars >>

\* only the first n bytes of the record reach decrypt
Truncate(n) ==
    /\ record # << >>
    /\ tamper = Untouched
    /\ wire' = slice(wire, 0, n)
    /\ tamper' = [kind |-> "cut", byte |-> n, mask |-> 0]
    /\ outcome' = NoCall
    /\ UNCHANGED << staticVars, instanceVars,
                    key, now, plain, stamp, record, chunkVars, peerVars, pwVars >>

\* cipher.decrypt(wire)
Decrypt ==
    /\ key # << >>
    /\ outcome = NoCall
    /\ outcome' = decrypt(key, wire)
    /\ UNCHANGED << staticVars, instanceVars,
                    key, now, plain, stamp, record, wire, tamper,
                    chunkVars, peerVars, pwVars >>

Next ==
    \/ Tick
    \/ \E x \in Plaintexts : Encrypt(x)
    \/ \E p \in 0..(39 + MaxLen), b \in FlipBits : Corrupt(p, 2 ^ b)
    \/ Corrupt(20, 255)
    \/ \E n \in CutLengths : Truncate(n)
    \/ Decrypt

Spec == Init /\ [][Next]_vars

(***************************************************************************)
(* Chunked calls.                                                          *)
(***************************************************************************)
RECURSIVE ClockRuns(_, _)
\* what Date.now() can return to n successive calls, the first at from or later
ClockRuns(from, n) ==
    IF n = 0 THEN {<< >>}
    ELSE UNION {{<<t>> \o r : r \in ClockRuns(t, n - 1)} : t \in from..MaxTicks}

InitChunks ==
    /\ key \in ChunkKeys
    /\ NothingCalled

\* cipher.encryptChunks(cs); the k-th encrypt call reads the clock at ts[k]
EncryptChunks(cs, ts) ==
    /\ key # << >>
    /\ chunkTamper = ChunksIdle
    /\ chunks' = cs
    /\ chunkWires' = encryptChunks(key, cs, [k \in 1..Len(cs) |-> Reading(ts[k])])
    /\ calls' = calls \o SubSeq([k \in 1..Len(cs) |->
                                   [chunk |-> k, t |-> Reading(ts[k]),
                                    nonce |-> slice(chunkWires'[k], 0, 8)]],
                                1, Len(cs))
    /\ now' = IF cs = << >> THEN now ELSE ts[Len(cs)]
    /\ chunkTamper' = ChunksUntouched
    /\ chunkOutcome' = NoCall
    /\ UNCHANGED << staticVars, instanceVars,
                    key, recordVars, peerVars, pwVars >>

\* encrypted[p] ^= m on the k-th record on its way to decryptChunks
CorruptChunk(k, p, m) ==
    /\ chunkTamper = ChunksUntouched
    /\ k <= Len(chunkWires)
    /\ p < Len(chunkWires[k])
    /\ chunkWires' = [chunkWires EXCEPT ![k] = put(@, p, Xor(at(@, p), m))]
    /\ chunkTamper' = [kind |-> "flip", chunk |-> k, byte |-> p, mask |-> m]
    /\ chunkOutcome' = NoCall
    /\ UNCHANGED << staticVars, instanceVars,
                    key, now, recordVars, chunks, calls, peerVars, pwVars >>

\* cipher.decryptChunks(chunkWires)
DecryptChunks ==
    /\ chunkTamper # ChunksIdle
    /\ chunkOutcome = NoCall
    /\ chunkOutcome' = decryptChunks(key, chunkWires)
    /\ UNCHANGED << staticVars, instanceVars,
                    key, now, recordVars, chunks, chunkWires, chunkTamper, calls,
                    peerVars, pwVars >>

NextChunks ==
    \/ Tick
    \/ chunkTamper = ChunksIdle /\ Encrypt(SinglePlain)
    \/ \E cs \in ChunkLists : \E ts \in ClockRuns(now, Len(cs)) : EncryptChunks(cs, ts)
    \/ \E k \in 1..MaxChunks, f \in ChunkFlips : CorruptChunk(k, f[1], f[2])
    \/ DecryptChunks

SpecChunks == InitChunks /\ [][NextChunks]_vars

(***************************************************************************)
(* Two instances with their own keys.                                      *)
(***************************************************************************)
InitKeys ==
    /\ key \in KeyPool
    /\ NothingCalled

\* other = SymmetricMorph.fromKey(k)
OtherFromKey(k) ==
    /\ otherKey = << >>
    /\ otherKey' = fromKey(k).key
    /\ UNCHANGED << staticVars, instanceVars,
                    key, now, recordVars, chunkVars, otherRecord, otherOutcome, pwVars >>

\* other.encrypt(plain)
EncryptOther ==
    /\ otherKey # << >>
    /\ record # << >>
    /\ otherRecord = << >>
    /\ otherRecord' = encrypt(otherKey, plain, Reading(now))
    /\ UNCHANGED << staticVars, instanceVars,
                    key, now, recordVars, chunkVars, otherKey, otherOutcome, pwVars >>

NextKeys ==
    \/ Tick
    \/ \E x \in Plaintexts : Encrypt(x)
    \/ \E k \in KeyPool : OtherFromKey(k)
    \/ EncryptOther

SpecKeys == InitKeys /\ [][NextKeys]_vars

(***************************************************************************)
(* Instances built from a password.                                        *)
(***************************************************************************)
NotAFunction(name) == "TypeError: " \o name \o " is not a function"

InitPassword ==
    /\ key = << >>
    /\ NothingCalled

\* performance.now() advances
PerfTick ==
    /\ perf < MaxPerf
    /\ otherKey = << >>
    /\ perf' = perf + 1
    /\ UNCHANGED << staticVars, instanceVars,
                    key, now, recordVars, chunkVars, peerVars,
                    password, lastSalt, saltSeen >>

\* cipher = SymmetricMorph.fromPassword(pw, Iterations, KeyLength)
FromPassword(pw) ==
    /\ key = << >>
    /\ key' = fromPassword(pw, Iterations, KeyLength, perf).key
    /\ password' = pw
    /\ lastSalt' = generateSalt(24, perf)
    /\ UNCHANGED << staticVars, instanceVars,
                    now, recordVars, chunkVars, peerVars, perf, saltSeen >>

\* cipher.getSalt(): the class has no such member
GetSalt ==
    /\ key # << >>
    /\ saltSeen = NoCall
    /\ saltSeen' = Thrown(NotAFunction("cipher.getSalt"), << >>)
    /\ UNCHANGED << staticVars, instanceVars,
                    key, now, recordVars, chunkVars, peerVars,
                    password, perf, lastSalt >>

\* SymmetricMorph.fromPasswordWithSalt(password, salt): the class has no such member
FromPasswordWithSalt ==
    /\ record # << >>
    /\ otherKey = << >>
    /\ otherOutcome = NoCall
    /\ otherOutcome' = Thrown(NotAFunction("SymmetricMorph.fromPasswordWithSalt"), << >>)
    /\ UNCHANGED << staticVars, instanceVars,
                    key, now, recordVars, chunkVars, otherKey, otherRecord, pwVars >>

\* a second cipher from the same password, by the one constructor that takes a password
FromPasswordAgain ==
    /\ record # << >>
    /\ otherKey = << >>
    /\ otherOutcome = NoCall
    /\ otherKey' = fromPassword(password, Iterations, KeyLength, perf).key
    /\ UNCHANGED << staticVars, instanceVars,
                    key, now, recordVars, chunkVars, otherRecord, otherOutcome, pwVars >>

\* the second cipher's decrypt(record)
DecryptOther ==
    /\ otherKey # << >>
    /\ record # << >>
    /\ otherOutcome = NoCall
    /\ otherOutcome' = decrypt(otherKey, record)
    /\ UNCHANGED << staticVars, instanceVars,
                    key, now, recordVars, chunkVars, otherKey, otherRecord, pwVars >>

NextPassword ==
    \/ Tick
    \/ PerfTick
    \/ \E pw \in Passwords : FromPassword(pw)
    \/ GetSalt
    \/ \E x \in Plaintexts : Encrypt(x)
    \/ FromPasswordWithSalt
    \/ FromPasswordAgain
    \/ DecryptOther

SpecPassword == InitPassword /\ [][NextPassword]_vars

(***************************************************************************)
(* The static helper generateKey.                                          *)
(***************************************************************************)
InitStatic ==
    /\ key = << >>
    /\ NothingCalled

\* SymmetricMorph.generateKey(n) with Date.now() = ClockHi * 2^24 + lo
GenerateKey(n, lo) ==
    /\ keyCalls = << >>
    /\ keyCalls' = << [t |-> Reading(lo), length |-> n,
                       key |-> generateKey(n, Reading(lo))] >>
    /\ UNCHANGED << key, now, recordVars, chunkVars, peerVars, pwVars,
                    derivations, cmp, perm, instanceVars >>

\* a second SymmetricMorph.generateKey(n), d milliseconds after the first
GenerateKeyAgain(n, d) ==
    /\ Len(keyCalls) = 1
    /\ LET t == Reading(keyCalls[1].t.lo + d)
       IN  keyCalls' = Append(keyCalls, [t |-> t, length |-> n,
                                         key |-> generateKey(n, t)])
    /\ UNCHANGED << key, now, recordVars, chunkVars, peerVars, pwVars,
                    derivations, cmp, perm, instanceVars >>

NextKeyGen ==
    \/ \E n \in 0..MaxKeyLen, lo \in KeyGenClocks : GenerateKey(n, lo)
    \/ \E n \in 0..MaxKeyLen, d \in KeyGenWaits : GenerateKeyAgain(n, d)

SpecKeyGen == InitStatic /\ [][NextKeyGen]_vars

(***************************************************************************)
(* The private helper deriveKey, called twice and followed statement by    *)
(* statement.  The last element of derivations is the call in progress:    *)
(* its arguments, the clocks at its entry, and its locals data, state, i   *)
(* and key.                                                                *)
(***************************************************************************)
\* whether no deriveKey call is in progress
NoDerivationRunning ==
    IF derivations = << >> THEN TRUE ELSE derivations[Len(derivations)].pc = "done"

\* the entry of a deriveKey whose local state lives on from the call before
DeriveKeyKeepsState(pass, salt, rounds, length) ==
    /\ Len(derivations) < 2
    /\ NoDerivationRunning
    /\ derivations' = Append(derivations,
           [pass |-> pass, salt |-> salt, rounds |-> rounds, length |-> length,
            now |-> now, perf |-> perf, pc |-> "rounds",
            data |-> pass \o salt,
            state |-> IF derivations = << >> THEN 0
                      ELSE derivations[Len(derivations)].state,
            i |-> 0, key |-> << >>])
    /\ UNCHANGED << key, now, recordVars, chunkVars, peerVars, pwVars,
                    keyCalls, cmp, perm, instanceVars >>

\* SymmetricMorph.deriveKey(pass, salt, rounds, length), lines 232-234
DeriveKey(pass, salt, rounds, length) ==
    /\ Len(derivations) < 2
    /\ NoDerivationRunning
    /\ derivations' = Append(derivations,
           [pass |-> pass, salt |-> salt, rounds |-> rounds, length |-> length,
            now |-> now, perf |-> perf, pc |-> "rounds",
            data |-> pass \o salt, state |-> 0, i |-> 0, key |-> << >>])
    /\ UNCHANGED << key, now, recordVars, chunkVars, peerVars, pwVars,
                    keyCalls, cmp, perm, instanceVars >>

\* lines 235-239: one round, or the end of the rounds
DeriveRound ==
    /\ derivations # << >>
    /\ LET c == Len(derivations)
           x == derivations[c]
       IN  /\ x.pc = "rounds"
           /\ IF x.i < x.rounds
              THEN LET next == arrayOf([j \in 0..(Len(x.data) - 1) |->
                                   Xor(at(x.data, j), x.state + (j * 7) + x.i) % 256],
                                       Len(x.data))
                   IN  derivations' = [derivations EXCEPT ![c] =
                           [x EXCEPT !.data = next,
                                     !.state = (x.state + xorAll(next, Len(next))) % 256,
                                     !.i = x.i + 1]]
              ELSE derivations' = [derivations EXCEPT ![c] =
                       [x EXCEPT !.pc = "key", !.i = 0]]
    /\ UNCHANGED << key, now, recordVars, chunkVars, peerVars, pwVars,
                    keyCalls, cmp, perm, instanceVars >>

\* lines 240-244: one key.push, or the return of key
DeriveKeyByte ==
    /\ derivations # << >>
    /\ LET c == Len(derivations)
           x == derivations[c]
       IN  /\ x.pc = "key"
           /\ IF x.i < x.length
              THEN derivations' = [derivations EXCEPT ![c] =
                       [x EXCEPT !.key = Append(x.key,
                                     Xor(at(x.data, x.i % Len(x.data)),
                                         ((x.i * 37) + x.state) % 256)),
                                 !.i = x.i + 1]]
              ELSE derivations' = [derivations EXCEPT ![c] = [x EXCEPT !.pc = "done"]]
    /\ UNCHANGED << key, now, recordVars, chunkVars, peerVars, pwVars,
                    keyCalls, cmp, perm, instanceVars >>

NextDerive ==
    \/ Tick
    \/ PerfTick
    \/ \E pass \in DerivePasswords, salt \in DeriveSalts,
          rounds \in DeriveRounds, length \in DeriveLengths :
              DeriveKey(pass, salt, rounds, length)
    \/ DeriveRound
    \/ DeriveKeyByte

SpecDerive == InitStatic /\ [][NextDerive]_vars

(***************************************************************************)
(* One instance used again and again, its caller keeping the key array.    *)
(***************************************************************************)
\* cipher = SymmetricMorph.fromKey(k), k an array the caller keeps
FromKey(k) ==
    /\ key = << >>
    /\ callerKey = << >>
    /\ callerKey' = k
    /\ key' = fromKey(k).key
    /\ keyShared' = fromKey(k).sameArray
    /\ UNCHANGED << now, recordVars, chunkVars, peerVars, pwVars, staticVars,
                    earlier, inflight >>

\* the caller overwrites element 0 of the array it passed to fromKey
MutateCallerArray(v) ==
    /\ callerKey # << >>
    /\ at(callerKey, 0) # v
    /\ callerKey' = put(callerKey, 0, v)
    /\ key' = IF keyShared THEN callerKey' ELSE key
    /\ UNCHANGED << now, recordVars, chunkVars, peerVars, pwVars, staticVars,
                    keyShared, earlier, inflight >>

\* the record is sent once more, untouched, after a decrypt call
Resend ==
    /\ record # << >>
    /\ outcome # NoCall
    /\ earlier = NoCall
    /\ earlier' = outcome
    /\ wire' = record
    /\ tamper' = Untouched
    /\ outcome' = NoCall
    /\ UNCHANGED << key, now, plain, stamp, record, chunkVars, peerVars, pwVars,
                    staticVars, callerKey, keyShared, inflight >>

NextReuse ==
    \/ \E k \in RawKeys : FromKey(k)
    \/ MutateCallerArray(0)
    \/ Tick
    \/ Encrypt(ReusePlain)
    \/ Corrupt(8, 1)
    \/ Decrypt
    \/ Resend
    \/ \E ts \in ClockRuns(now, Len(ReuseChunks)) : EncryptChunks(ReuseChunks, ts)
    \/ \E k \in 1..Len(ReuseChunks) : CorruptChunk(k, 8, 1)
    \/ DecryptChunks

SpecReuse == InitStatic /\ [][NextReuse]_vars

(***************************************************************************)
(* Calls in progress on one instance, their loops advancing byte by byte   *)
(* in any order.  A call holds its own locals: nonce, tag read from the    *)
(* input, and the loop state (generator, diffusion state, feedback,        *)
(* trackers, accumulator, bytes pushed).                                   *)
(***************************************************************************)
\* the bytes the loop of a call runs over
callInput(call) ==
    IF call.op = "encrypt" THEN call.arg ELSE slice(call.arg, 8 + 32, Len(call.arg))

\* whether some call other than c is in the middle of its loop
OthersMidLoop(c) ==
    \E d \in 1..Len(inflight) :
        /\ d # c
        /\ inflight[d].pc = "loop"
        /\ Len(inflight[d].ls.out) > 0

\* cipher.encrypt(x) up to its loop (lines 49-56)
BeginEncrypt(x) ==
    /\ key # << >>
    /\ Len(inflight) < MaxCalls
    /\ LET nonce == generateNonce(Reading(now))
       IN  inflight' = Append(inflight,
               [op |-> "encrypt", arg |-> x, t |-> Reading(now), nonce |-> nonce,
                mac |-> << >>, ls |-> loopInit(key, nonce), pc |-> "loop",
                overlap |-> FALSE, result |-> NoCall])
    /\ UNCHANGED << key, now, recordVars, chunkVars, peerVars, pwVars, staticVars,
                    callerKey, keyShared, earlier >>

\* cipher.decrypt(w) up to its loop (lines 89-100)
BeginDecrypt(w) ==
    /\ key # << >>
    /\ Len(inflight) < MaxCalls
    /\ LET nonce == slice(w, 0, 8)
       IN  inflight' = Append(inflight,
               [op |-> "decrypt", arg |-> w, t |-> Reading(now), nonce |-> nonce,
                mac |-> slice(w, 8, 8 + 32), ls |-> loopInit(key, nonce),
                pc |-> "loop", overlap |-> FALSE, result |-> NoCall])
    /\ UNCHANGED << key, now, recordVars, chunkVars, peerVars, pwVars, staticVars,
                    callerKey, keyShared, earlier >>

\* one iteration of the loop of call c, on a generator all calls share
StepCallSharedPrng(c) ==
    /\ c <= Len(inflight)
    /\ inflight[c].pc = "loop"
    /\ Len(inflight[c].ls.out) < Len(callInput(inflight[c]))
    /\ LET call == inflight[c]
           i    == Len(call.ls.out)
           ls0  == [call.ls EXCEPT !.prng = inflight[1].ls.prng]
           ls1  == IF call.op = "encrypt"
                   THEN encStep(ls0, at(callInput(call), i), i)
                   ELSE decStep(ls0, at(callInput(call), i), i)
       IN  inflight' = [[inflight EXCEPT ![c] =
                            [call EXCEPT !.ls = ls1,
                                         !.overlap = call.overlap \/ OthersMidLoop(c)]]
                           EXCEPT ![1].ls.prng = ls1.prng]
    /\ UNCHANGED << key, now, recordVars, chunkVars, peerVars, pwVars, staticVars,
                    callerKey, keyShared, earlier >>

\* one iteration of the loop of call c (lines 58-75 / 102-120)
StepCall(c) ==
    /\ c <= Len(inflight)
    /\ inflight[c].pc = "loop"
    /\ Len(inflight[c].ls.out) < Len(callInput(inflight[c]))
    /\ LET call == inflight[c]
           i    == Len(call.ls.out)
           ls1  == IF call.op = "encrypt"
                   THEN encStep(call.ls, at(callInput(call), i), i)
                   ELSE decStep(call.ls, at(callInput(call), i), i)
       IN  inflight' = [inflight EXCEPT ![c] =
                           [call EXCEPT !.ls = ls1,
                                        !.overlap = call.overlap \/ OthersMidLoop(c)]]
    /\ UNCHANGED << key, now, recordVars, chunkVars, peerVars, pwVars, staticVars,
                    callerKey, keyShared, earlier >>

\* call c leaves its loop and returns or throws (lines 77-79 / 122-128)
FinishCall(c) ==
    /\ c <= Len(inflight)
    /\ inflight[c].pc = "loop"
    /\ Len(inflight[c].ls.out) >= Len(callInput(inflight[c]))
    /\ LET call == inflight[c]
           mac  == generateMac(call.ls.macAcc, key)
           res  == IF call.op = "encrypt"
                   THEN Returned(call.nonce \o mac \o call.ls.out, << >>)
                   ELSE IF ~constantTimeCompare(call.mac, mac)
                        THEN Thrown(MacError, DecryptWork)
                        ELSE Returned(call.ls.out, DecryptWork)
       IN  inflight' = [inflight EXCEPT ![c] =
                           [call EXCEPT !.pc = "done", !.result = res]]
    /\ UNCHANGED << key, now, recordVars, chunkVars, peerVars, pwVars, staticVars,
                    callerKey, keyShared, earlier >>

\* the records that reach the decrypt calls: the record of x at the first
\* reading of the clock, untouched or with bit 0 of its first payload byte flipped
ArrivingRecord(x, flipped) ==
    LET r == encrypt(key, x, Reading(0))
    IN  IF flipped THEN put(r, 40, Xor(at(r, 40), 1)) ELSE r

NextCalls ==
    \/ BeginEncrypt(CallPlain)
    \/ \E flipped \in BOOLEAN : BeginDecrypt(ArrivingRecord(CallPlain, flipped))
    \/ \E c \in 1..MaxCalls : StepCall(c)
    \/ \E c \in 1..MaxCalls : FinishCall(c)

SpecCalls == InitChunks /\ [][NextCalls]_vars

(***************************************************************************)
(* An encrypt call and the decrypt call of its record, side by side.       *)
(***************************************************************************)
NextLoop ==
    \/ \E x \in LoopPlains : inflight = << >> /\ BeginEncrypt(x)
    \/ /\ Len(inflight) = 1
       /\ BeginDecrypt(ArrivingRecord(inflight[1].arg, FALSE))
    \/ \E c \in 1..2 : StepCall(c)
    \/ \E c \in 1..2 : FinishCall(c)

SpecLoop == InitChunks /\ [][NextLoop]_vars

(***************************************************************************)
(* constantTimeCompare, statement by statement.  cmp.steps counts the      *)
(* element comparisons made.                                               *)
(***************************************************************************)
\* constantTimeCompare(a, b) is called
CompareCall(a, b) ==
    /\ cmp.pc = "idle"
    /\ cmp' = [NoCompare EXCEPT !.pc = "check", !.a = a, !.b = b]
    /\ UNCHANGED << key, now, recordVars, chunkVars, peerVars, pwVars,
                    keyCalls, derivations, perm, instanceVars >>

\* line 325: if (a.length !== b.length) return false; line 326: let result = 0
CompareLengths ==
    /\ cmp.pc = "check"
    /\ cmp' = IF Len(cmp.a) # Len(cmp.b)
              THEN [cmp EXCEPT !.pc = "done", !.answer = FALSE]
              ELSE [cmp EXCEPT !.pc = "loop", !.result = 0, !.i = 0]
    /\ UNCHANGED << key, now, recordVars, chunkVars, peerVars, pwVars,
                    keyCalls, derivations, perm, instanceVars >>

\* a loop iteration that leaves the loop at the first pair that differs
CompareStepEarlyExit ==
    /\ cmp.pc = "loop"
    /\ cmp.i < Len(cmp.a)
    /\ cmp' = IF at(cmp.a, cmp.i) # at(cmp.b, cmp.i)
              THEN [cmp EXCEPT !.result = 1, !.i = Len(cmp.a), !.steps = @ + 1]
              ELSE [cmp EXCEPT !.i = @ + 1, !.steps = @ + 1]
    /\ UNCHANGED << key, now, recordVars, chunkVars, peerVars, pwVars,
                    keyCalls, derivations, perm, instanceVars >>

\* lines 327-329: one iteration, result |= a[i] ^ b[i]
CompareStep ==
    /\ cmp.pc = "loop"
    /\ cmp.i < Len(cmp.a)
    /\ cmp' = [cmp EXCEPT !.result = Or(@, Xor(at(cmp.a, cmp.i), at(cmp.b, cmp.i))),
                          !.i = @ + 1,
                          !.steps = @ + 1]
    /\ UNCHANGED << key, now, recordVars, chunkVars, peerVars, pwVars,
                    keyCalls, derivations, perm, instanceVars >>

\* line 330: return result === 0
CompareReturn ==
    /\ cmp.pc = "loop"
    /\ cmp.i >= Len(cmp.a)
    /\ cmp' = [cmp EXCEPT !.pc = "done", !.answer = (cmp.result = 0)]
    /\ UNCHANGED << key, now, recordVars, chunkVars, peerVars, pwVars,
                    keyCalls, derivations, perm, instanceVars >>

NextCompare ==
    \/ \E a, b \in CompareTags : CompareCall(a, b)
    \/ CompareLengths
    \/ CompareStep
    \/ CompareReturn

SpecCompare == InitStatic /\ [][NextCompare]_vars

(***************************************************************************)
(* The updateState calls of one encrypt call, pass by pass.  perm.ls holds *)
(* the loop's locals before the iteration, perm.state the array the call   *)
(* is working on, perm.before the snapshot of line 180.                    *)
(***************************************************************************)
\* encrypt(x) on an instance with key k, up to its loop (lines 49-56)
InitStateOf(k, x) ==
    /\ perm = NoPermutation
    /\ perm' = [NoPermutation EXCEPT
                   !.pc = "call", !.plain = x,
                   !.ls = loopInit(k, generateNonce(Reading(now))),
                   !.state = initState(k), !.before = initState(k)]
    /\ UNCHANGED << key, now, recordVars, chunkVars, peerVars, pwVars,
                    keyCalls, derivations, cmp, instanceVars >>

\* lines 59-67 and 170-177: the loop body up to the updateState call, and
\* the first pass of that call
Phase1 ==
    /\ perm.pc = "call"
    /\ perm.iteration < Len(perm.plain)
    /\ perm.iteration < MaxIterations
    /\ LET ls      == perm.ls
           i       == perm.iteration
           n       == prngNext(ls.prng)
           rotated == encByte(at(perm.plain, i), maskOf(ls, i), n.val, i)
           mixed   == And(Xor(Xor(Xor(Xor(ls.prev1, ls.prev2), ls.prev3), ls.feedback),
                              n.val), Byte)
       IN  perm' = [perm EXCEPT !.pc = "phase2",
                                !.state = updatePhase1(ls.state, rotated, mixed),
                                !.rotated = rotated,
                                !.inv = NotByte(rotated),
                                !.mixed = mixed]
    /\ UNCHANGED << key, now, recordVars, chunkVars, peerVars, pwVars,
                    keyCalls, derivations, cmp, instanceVars >>

\* lines 179-185 in the updateState call of loop iteration perm.iteration
Phase2 ==
    /\ perm.pc = "phase2"
    /\ perm' = [perm EXCEPT !.pc = "phase3",
                            !.state = updatePhase2(perm.state, perm.inv, perm.iteration),
                            !.before = perm.state]
    /\ UNCHANGED << key, now, recordVars, chunkVars, peerVars, pwVars,
                    keyCalls, derivations, cmp, instanceVars >>

\* lines 187-190, the return of updateState, and the rest of the loop body
\* (lines 69-74)
Phase3 ==
    /\ perm.pc = "phase3"
    /\ LET i == perm.iteration
       IN  perm' = [perm EXCEPT
                       !.pc = "call",
                       !.state = updatePhase3(perm.state, perm.inv, perm.ls.feedback),
                       !.ls = encStep(perm.ls, at(perm.plain, i), i),
                       !.iteration = i + 1]
    /\ UNCHANGED << key, now, recordVars, chunkVars, peerVars, pwVars,
                    keyCalls, derivations, cmp, instanceVars >>

NextPhase2 ==
    \/ \E k \in Keys, x \in PermPlains : InitStateOf(k, x)
    \/ Phase1
    \/ Phase2
    \/ Phase3

SpecPhase2 == InitStatic /\ [][NextPhase2]_vars

(***************************************************************************)
(* One record's life under a key of 64 bytes or more.                      *)
(***************************************************************************)
InitLongKey ==
    /\ key \in LongKeys
    /\ NothingCalled

SpecLongKey == InitLongKey /\ [][Next]_vars

(***************************************************************************)
(* Properties of one record's life: encrypt, transport, decrypt.           *)
(***************************************************************************)
\* decrypt's loop state after its loop on input w under key k (lines 89-120)
decodeLoop(k, w) ==
    decLoop(loopInit(k, slice(w, 0, 8)), slice(w, 8 + 32, Len(w)))

\* C1: round trip - decrypt of the untouched record that encrypt returned, under
\* the same key, returns exactly the plaintext, for every key, plaintext
\* (the empty one and single bytes included) and clock reading
C1_RoundTrip ==
    (record # << >> /\ tamper = Untouched /\ outcome # NoCall)
        => (outcome.kind = "return" /\ outcome.value = plain)

C1_Witness ==
    /\ record # << >>
    /\ tamper = Untouched
    /\ outcome.kind = "return"
    /\ Len(plain) = 2
    /\ key \in DerivedKeys

\* C2: tamper detection - after any single bit of the record was flipped,
\* decrypt throws the integrity error
C2_TamperDetected ==
    (tamper.kind = "flip" /\ tamper.mask \in {2 ^ b : b \in 0..7} /\ outcome # NoCall)
        => (outcome.kind = "throw" /\ outcome.message = MacError)

\* C3: decrypt returns a plaintext exactly when the 32 bytes at offsets 8..39
\* of its input equal the tag it recomputes; otherwise it throws the integrity
\* error and hands over no plaintext byte
C3_TagDecides ==
    outcome # NoCall =>
        LET ls    == decodeLoop(key, wire)
            tagOk == /\ Len(wire) >= 40
                     /\ slice(wire, 8, 40) = generateMac(ls.macAcc, key)
        IN  /\ (outcome.kind = "return") <=> tagOk
            /\ tagOk => outcome.value = ls.out
            /\ ~tagOk => /\ outcome.kind = "throw"
                         /\ outcome.message = MacError
                         /\ outcome.value = << >>

C3_Witness ==
    /\ outcome.kind = "throw"
    /\ tamper.kind = "flip"
    /\ tamper.byte \in 8..39
    /\ Len(plain) > 0

\* C4: the record encrypt returns has 40 + len(x) elements: the nonce of the
\* call's clock reading at offsets 0..7, the tag at 8..39, then one payload
\* byte per plaintext byte; 40 elements for the empty plaintext
C4_Layout ==
    (record # << >> /\ wire = record /\ outcome = NoCall) =>
        LET ls == decodeLoop(key, record)
        IN  /\ Len(record) = 40 + Len(plain)
            /\ slice(record, 0, 8) = generateNonce(stamp)
            /\ slice(record, 8, 40) = generateMac(ls.macAcc, key)
            /\ Len(slice(record, 40, Len(record))) = Len(plain)
            /\ ls.out = plain
            /\ (plain = << >> => Len(record) = 40)

C4_Witness ==
    /\ record # << >>
    /\ wire = record
    /\ outcome = NoCall
    /\ Len(plain) = 2
    /\ Len(record) = 42

\* C5: decrypt of an input shorter than 40 elements throws a format error
\* that is not the integrity error, before any cryptographic work
C5_FormatError ==
    (outcome # NoCall /\ Len(wire) < 40)
        => /\ outcome.kind = "throw"
           /\ outcome.message # MacError
           /\ outcome.did = << >>

(***************************************************************************)
(* Properties of instances built from a password                           *)
(***************************************************************************)
\* C6: the salt fromPassword generated is available from the instance, and a
\* second cipher built from the same password decrypts every record the
\* first one encrypted.
C6_SaltAvailable ==
    /\ saltSeen # NoCall => (saltSeen.kind = "return" /\ saltSeen.value = lastSalt)
    /\ otherOutcome # NoCall =>
           (otherOutcome.kind = "return" /\ otherOutcome.value = plain)

(***************************************************************************)
(* Properties of chunked calls                                             *)
(***************************************************************************)
\* the encrypt calls encryptChunks made, in order
chunkCalls == SelectSeq(calls, LAMBDA c : c.chunk > 0)

\* C7: encryptChunks and decryptChunks work element by element and keep count
\* and order: as many records as chunks, record k is 40 bytes longer than
\* chunk k and decrypts to it, and decryptChunks of the untouched records
\* returns the chunks position by position.
C7_ChunksElementWise ==
    chunkTamper = ChunksUntouched =>
        /\ Len(chunkWires) = Len(chunks)
        /\ \A k \in 1..Len(chunks) : Len(chunkWires[k]) = 40 + Len(chunks[k])
        /\ chunkOutcome = NoCall =>
               \A k \in 1..Len(chunks) :
                   /\ chunkWires[k] = encrypt(key, chunks[k], chunkCalls[k].t)
                   /\ decrypt(key, chunkWires[k]).value = chunks[k]
        /\ chunkOutcome # NoCall =>
               /\ chunkOutcome.kind = "return"
               /\ Len(chunkOutcome.value) = Len(chunks)
               /\ \A k \in 1..Len(chunks) : chunkOutcome.value[k] = chunks[k]

C7_Witness ==
    /\ chunkTamper = ChunksUntouched
    /\ chunkOutcome.kind = "return"
    /\ Len(chunks) = 3
    /\ chunks[1] # chunks[2]
    /\ chunks[2] = chunks[3]

\* C8: with three chunks, corrupting the record of the first or of the last
\* chunk leaves the second chunk's plaintext delivered by decryptChunks.
C8_Independent ==
    (/\ Len(chunks) = 3
     /\ chunkTamper.kind = "flip"
     /\ chunkTamper.chunk \in {1, 3}
     /\ chunkOutcome # NoCall) =>
        /\ chunkOutcome.kind = "return"
        /\ chunkOutcome.value[2] = chunks[2]

\* C10 as stated: any two encrypt calls on an instance embed different nonces.
C10_AlwaysFresh ==
    \A i, j \in 1..Len(calls) : i # j => calls[i].nonce # calls[j].nonce

\* C10: every encrypt call, the per-chunk calls of encryptChunks included,
\* embeds generateNonce of the clock reading it took: two calls embed the
\* same nonce when they read the same millisecond and different nonces when
\* their readings differ.
C10_NonceFromClock ==
    \A i, j \in 1..Len(calls) :
        /\ calls[i].nonce = generateNonce(calls[i].t)
        /\ calls[i].nonce = calls[j].nonce <=> calls[i].t = calls[j].t

C10_Witness ==
    /\ Len(chunkCalls) = 3
    /\ Len(calls) = 4
    /\ chunkCalls[1].nonce = chunkCalls[2].nonce
    /\ chunkCalls[2].nonce # chunkCalls[3].nonce
    /\ calls[1].nonce = chunkCalls[1].nonce

(***************************************************************************)
(* Properties of two instances                                             *)
(***************************************************************************)
\* C9: two instances with different keys never return the same record for
\* the same non-empty plaintext, whether or not the two calls read the same
\* millisecond.
C9_KeySensitive ==
    (/\ record # << >>
     /\ otherRecord # << >>
     /\ plain # << >>
     /\ otherKey # key) => otherRecord # record

(***************************************************************************)
(* Properties of generateKey                                               *)
(***************************************************************************)
\* C11: generateKey(n) returns exactly n elements, each an integer in 0..255,
\* for every n (0 included) and every clock reading.
C11_KeyShape ==
    \A c \in 1..Len(keyCalls) :
        /\ Len(keyCalls[c].key) = keyCalls[c].length
        /\ \A k \in 1..Len(keyCalls[c].key) : keyCalls[c].key[k] \in 0..255

C11_Witness ==
    /\ Len(keyCalls) = 2
    /\ keyCalls[1].length = MaxKeyLen
    /\ keyCalls[1].t.lo = 255
    /\ keyCalls[2].length = 0
    /\ keyCalls[2].key = << >>

\* C20: the key generateKey(n) returns is determined by n and the low 8 bits
\* of the clock reading: it is the key of the reading reduced to its low
\* byte, and two calls whose readings agree modulo 256 return the same key
\* (so at most 256 keys exist for each n).
C20_LowByteOnly ==
    /\ \A c \in 1..Len(keyCalls) :
           keyCalls[c].key =
               generateKey(keyCalls[c].length, ClockReading(0, keyCalls[c].t.lo % 256))
    /\ \A c, d \in 1..Len(keyCalls) :
           (/\ keyCalls[c].length = keyCalls[d].length
            /\ keyCalls[c].t.lo % 256 = keyCalls[d].t.lo % 256)
               => keyCalls[c].key = keyCalls[d].key

C20_Witness ==
    /\ Len(keyCalls) = 2
    /\ keyCalls[1].length = MaxKeyLen
    /\ keyCalls[2].length = MaxKeyLen
    /\ keyCalls[2].t.lo = keyCalls[1].t.lo + 256
    /\ keyCalls[1].key = keyCalls[2].key

(***************************************************************************)
(* Properties of deriveKey                                                 *)
(***************************************************************************)
\* C12: key derivation is deterministic: the key a deriveKey call returns has
\* exactly length bytes, two calls with the same password, salt, rounds and
\* length return the same key whatever the clocks read at either call and
\* whatever was derived before, and the key is the one the four arguments
\* alone determine.
C12_Deterministic ==
    \A c, d \in 1..Len(derivations) :
        LET x == derivations[c]
            y == derivations[d]
        IN  x.pc = "done" =>
                /\ Len(x.key) = x.length
                /\ x.key = deriveKey(x.pass, x.salt, x.rounds, x.length)
                /\ (/\ y.pc = "done"
                    /\ x.pass = y.pass
                    /\ x.salt = y.salt
                    /\ x.rounds = y.rounds
                    /\ x.length = y.length) => x.key = y.key

\* two calls have returned, the second with the arguments of the first, made
\* later on both clocks, after the first left its local state at a nonzero value
C12_Witness ==
    /\ Len(derivations) = 2
    /\ derivations[2].pc = "done"
    /\ derivations[1].pass = derivations[2].pass
    /\ derivations[1].salt = derivations[2].salt
    /\ derivations[1].rounds = Iterations
    /\ derivations[2].rounds = Iterations
    /\ derivations[1].length = KeyLength
    /\ derivations[2].length = KeyLength
    /\ derivations[1].pass # << >>
    /\ derivations[1].state # 0
    /\ derivations[1].now < derivations[2].now
    /\ derivations[1].perf < derivations[2].perf
    /\ derivations[1].key = derivations[2].key

(***************************************************************************)
(* Properties of an instance used again and again                          *)
(***************************************************************************)
\* C13: once the instance is constructed no step changes its key: not
\* encrypt, not decrypt (returning or throwing), not encryptChunks or
\* decryptChunks, and not the caller overwriting the array it passed to
\* fromKey; and after a decrypt that threw, the instance decrypts the valid
\* record to its plaintext.
C13_KeyFrozen ==
    /\ [][key # << >> => key' = key]_vars
    /\ []((/\ record # << >>
            /\ earlier.kind = "throw"
            /\ tamper = Untouched
            /\ outcome # NoCall) => (outcome.kind = "return" /\ outcome.value = plain))

C13_Witness ==
    /\ earlier.kind = "throw"
    /\ tamper = Untouched
    /\ outcome.kind = "return"
    /\ outcome.value = ReusePlain
    /\ chunkOutcome.kind = "throw"
    /\ callerKey # key
    /\ key \in RawKeys

(***************************************************************************)
(* Properties of calls in progress on one instance                         *)
(***************************************************************************)
\* what a call gives back when it runs alone
aloneResult(call) ==
    IF call.op = "encrypt"
    THEN Returned(encrypt(key, call.arg, call.t), << >>)
    ELSE decrypt(key, call.arg)

\* C14: however the per-byte steps of the encrypt and decrypt calls on one
\* instance interleave, every call gives back exactly what it gives back
\* when it runs alone.
C14_CallsIsolated ==
    \A c \in 1..Len(inflight) :
        inflight[c].pc = "done" => inflight[c].result = aloneResult(inflight[c])

C14_Witness ==
    /\ Len(inflight) = 2
    /\ inflight[1].pc = "done"
    /\ inflight[2].pc = "done"
    /\ inflight[1].overlap
    /\ inflight[2].overlap
    /\ inflight[1].op = "encrypt"
    /\ inflight[2].op = "decrypt"
    /\ inflight[2].result.kind = "return"
    /\ Len(inflight[2].result.value) = 2

(***************************************************************************)
(* Properties of the byte loop                                             *)
(***************************************************************************)
\* the locals of a loop that both sides must agree on
trajectory(ls) ==
    [prng |-> ls.prng, state |-> ls.state, feedback |-> ls.feedback,
     prev1 |-> ls.prev1, prev2 |-> ls.prev2, prev3 |-> ls.prev3,
     macAcc |-> ls.macAcc]

\* C15: when decrypt works on the record encrypt produced under the same
\* key, then after every byte index the decrypt side's diffusion state,
\* feedback, prev1, prev2, prev3, accumulator and generator equal the encrypt
\* side's after the same index; the decrypt side computes them from key,
\* nonce and ciphertext bytes, without the plaintext.
C15_SameTrajectory ==
    (/\ Len(inflight) = 2
     /\ inflight[1].op = "encrypt"
     /\ inflight[2].op = "decrypt"
     /\ Len(inflight[1].ls.out) = Len(inflight[2].ls.out)) =>
        LET n == Len(inflight[2].ls.out)
        IN  /\ trajectory(inflight[1].ls) = trajectory(inflight[2].ls)
            /\ inflight[2].ls.out = slice(inflight[1].arg, 0, n)
            /\ inflight[1].ls.out = slice(callInput(inflight[2]), 0, n)
            /\ trajectory(inflight[2].ls) =
                   trajectory(decLoop(loopInit(key, inflight[2].nonce),
                                      slice(callInput(inflight[2]), 0, n)))

C15_Witness ==
    /\ Len(inflight) = 2
    /\ inflight[1].op = "encrypt"
    /\ inflight[2].op = "decrypt"
    /\ inflight[1].pc = "loop"
    /\ inflight[2].pc = "loop"
    /\ Len(inflight[1].ls.out) = 4
    /\ Len(inflight[2].ls.out) = 4
    /\ inflight[1].ls.out # inflight[2].ls.out
    /\ inflight[1].ls.state = inflight[2].ls.state

(***************************************************************************)
(* Properties of constantTimeCompare                                       *)
(***************************************************************************)
\* C16: the lengths are compared before any element; for equal lengths every
\* position is visited, so the number of element comparisons is the length
\* whether and wherever the arrays differ, the accumulated value is the OR
\* of the XORs of the pairs visited, and the answer is true exactly when
\* every pair is equal.
C16_ConstantTime ==
    /\ cmp.pc = "check" => cmp.steps = 0
    /\ cmp.pc = "loop" =>
           /\ cmp.steps = cmp.i
           /\ cmp.result = compareAcc(slice(cmp.a, 0, cmp.i), slice(cmp.b, 0, cmp.i), 1, 0)
    /\ cmp.pc = "done" =>
           /\ Len(cmp.a) # Len(cmp.b) => (cmp.steps = 0 /\ ~cmp.answer)
           /\ Len(cmp.a) = Len(cmp.b) =>
                  /\ cmp.steps = Len(cmp.a)
                  /\ cmp.answer <=> (\A k \in 1..Len(cmp.a) : cmp.a[k] = cmp.b[k])
           /\ cmp.answer = constantTimeCompare(cmp.a, cmp.b)

C16_Witness ==
    /\ cmp.pc = "done"
    /\ Len(cmp.a) = MaxTagLen
    /\ Len(cmp.b) = MaxTagLen
    /\ cmp.a[1] # cmp.b[1]
    /\ cmp.a[MaxTagLen] = cmp.b[MaxTagLen]
    /\ cmp.steps = MaxTagLen
    /\ ~cmp.answer

(***************************************************************************)
(* Properties of the permutation pass                                      *)
(***************************************************************************)
\* C17: the pass runs exactly on iterations with iteration mod 4 = 3, and
\* then it is a permutation of the 64-byte snapshot: the index map
\* i -> (i * 13 + iteration) mod 64 is a bijection on 0..63 for every
\* iteration, and every snapshot byte, XORed with inv, lands in exactly one
\* position.  (Between calls the array the three passes leave is the one
\* the loop goes on with.)
C17_Permutation ==
    /\ perm.pc = "phase3" =>
        LET it == perm.iteration
            n  == Len(perm.before)
        IN  /\ n = 64
            /\ Len(perm.state) = 64
            /\ \A j \in 0..63 : Cardinality({i \in 0..63 : swapIndex(i, it, n) = j}) = 1
            /\ it % 4 # 3 => perm.state = perm.before
            /\ it % 4 = 3 =>
                   \A j \in 0..63 :
                       Cardinality({i \in 0..63 :
                           /\ swapIndex(i, it, n) = j
                           /\ at(perm.state, i) = Xor(at(perm.before, j), perm.inv)}) = 1
    /\ perm.pc = "call" => perm.state = perm.ls.state

\* the pass has run in the updateState call of iteration 7 of
\* encrypt([72,105,33,10,200,1,2,3]) and moved the snapshot's byte 7 to position 0
C17_Witness ==
    /\ perm.pc = "phase3"
    /\ perm.iteration = 7
    /\ perm.plain = <<72, 105, 33, 10, 200, 1, 2, 3>>
    /\ perm.inv = NotByte(perm.rotated)
    /\ perm.state # perm.before
    /\ at(perm.state, 0) = Xor(at(perm.before, 7), perm.inv)

(***************************************************************************)
(* Properties of records under long keys                                   *)
(***************************************************************************)
\* C18: with a key of 64 bytes or more the nonce has no influence: tag and
\* payload of encrypt(x) are the same at every clock reading, and what
\* decrypt gives back (plaintext or integrity error) does not depend on the
\* first 8 bytes of its input.
C18_NonceIgnored ==
    Len(key) >= 64 =>
        /\ (record # << >> /\ wire = record /\ outcome = NoCall) =>
               \A t \in {Reading(lo) : lo \in 0..MaxTicks} \cup {ClockReading(ClockHi + 1, 77)} :
                   slice(encrypt(key, plain, t), 8, 40 + Len(plain))
                       = slice(record, 8, Len(record))
        /\ (outcome # NoCall /\ Len(wire) >= 8) =>
               decrypt(key, ZeroNonce \o slice(wire, 8, Len(wire))) = outcome

C18_Witness ==
    /\ Len(key) = 65
    /\ outcome.kind = "return"
    /\ tamper.kind = "flip"
    /\ tamper.byte < 8
    /\ outcome.value = plain
    /\ Len(plain) = 2

(***************************************************************************)
(* Properties of the tag                                                   *)
(***************************************************************************)
\* the key bytes read off the tag of a record of the empty plaintext
keyFromEmptyRecord(r, n) ==
    [j \in 1..n |-> Xor(Xor(at(r, 8 + (j - 1)), 157), ((j - 1) * 19) % 256)]

\* C19: the tag of a record is determined by the key and one accumulator
\* byte (so a key has at most 256 tags); for the empty plaintext the
\* accumulator is 157 at every nonce, tag[j] is
\* (157 xor key[j mod keyLength] xor (j * 19)) & 0xFF, and the first
\* min(keyLength, 32) key bytes can be computed from the record alone.
C19_TagLeaksKey ==
    (record # << >> /\ wire = record /\ outcome = NoCall) =>
        LET tag == slice(record, 8, 40)
            acc == Xor(at(tag, 0), at(key, 0))
            n   == IF Len(key) < 32 THEN Len(key) ELSE 32
        IN  /\ acc \in 0..255
            /\ tag = generateMac(acc, key)
            /\ plain = << >> =>
                   /\ acc = 157
                   /\ \A j \in 0..31 :
                          at(tag, j) = And(Xor(Xor(157, at(key, j % Len(key))), j * 19), 255)
                   /\ keyFromEmptyRecord(record, n) = SubSeq(key, 1, n)

C19_Witness ==
    /\ record # << >>
    /\ wire = record
    /\ outcome = NoCall
    /\ plain = << >>
    /\ now = 1
    /\ key = <<7, 200, 33>>
    /\ keyFromEmptyRecord(record, 3) = <<7, 200, 33>>

(***************************************************************************)
(* One encrypt call and then one decrypt call on an instance, each loop    *)
(* followed byte by byte.  The instance's key comes from fromKey or from   *)
(* fromPassword; with iterations = 0 the password's char code 55357 stays  *)
(* in the derived key.  decrypt is given the record encrypt returned, as   *)
(* it is, with one bit or all bits of a byte flipped, or cut short.        *)
(***************************************************************************)
RangeKeys ==
    {fromKey(k).key : k \in RawKeys}
        \cup {fromPassword(Password, n, KeyLength, 1234).key : n \in {0, Iterations}}

\* plaintexts of 0 to 9 bytes; the longest passes i mod 4 = 3 twice
RangePlains ==
    {<< >>, <<0>>, [i \in 1..9 |-> 255]} \cup LoopPlains

\* the first byte of nonce, tag and payload
RangeFlips == {0, 8, 40}

\* the byte arrays that reach decrypt when encrypt returned r
arriving(r) ==
    {r} \cup {put(r, p, Xor(at(r, p), 2 ^ b)) :
                 p \in {q \in RangeFlips : q < Len(r)}, b \in FlipBits}
        \cup {put(r, 20, Xor(at(r, 20), 255))}
        \cup {slice(r, 0, n) : n \in CutLengths}
        \cup {slice(r, 0, Len(r) - 1)}

InitRange ==
    /\ key \in RangeKeys
    /\ NothingCalled

NextRange ==
    \/ inflight = << >> /\ Tick
    \/ \E x \in RangePlains : inflight = << >> /\ BeginEncrypt(x)
    \/ /\ Len(inflight) = 1
       /\ inflight[1].pc = "done"
       /\ \E w \in arriving(inflight[1].result.value) : BeginDecrypt(w)
    \/ \E c \in 1..2 : StepCall(c)
    \/ \E c \in 1..2 : FinishCall(c)

SpecRange == InitRange /\ [][NextRange]_vars

(***************************************************************************)
(* Value ranges in the byte loop                                           *)
(***************************************************************************)
\* every element of the array a is an integer in [0,255]
allBytes(a) == \A k \in 1..Len(a) : a[k] \in 0..255

\* C21: at every step of encrypt and of decrypt the diffusion state has 64
\* elements, each in [0,255]; feedback, prev1, prev2, prev3 and the MAC
\* accumulator are in [0,255]; the keystream byte and the masking position
\* of the iteration about to run are in [0,255] and in 0..63; the bytes
\* pushed so far are in [0,255]; and so is every element of the record
\* encrypt returns (nonce, tag, payload: 40 + n elements) and of the
\* plaintext decrypt returns.
C21_ByteRange ==
    \A c \in 1..Len(inflight) :
        LET call == inflight[c]
            ls   == call.ls
            i    == Len(ls.out)
        IN  /\ Len(ls.state) = 64
            /\ allBytes(ls.state)
            /\ ls.feedback \in 0..255
            /\ ls.prev1 \in 0..255
            /\ ls.prev2 \in 0..255
            /\ ls.prev3 \in 0..255
            /\ ls.macAcc \in 0..255
            /\ allBytes(ls.out)
            /\ (call.pc = "loop" /\ i < Len(callInput(call))) =>
                   /\ prngNext(ls.prng).val \in 0..255
                   /\ maskPos(ls, i) \in 0..63
            /\ (call.pc = "done" /\ call.result.kind = "return") =>
                   /\ allBytes(call.result.value)
                   /\ call.op = "encrypt" =>
                          Len(call.result.value) = 40 + Len(call.arg)

\* under the key that keeps the char code 55357, encrypt has returned the
\* record of nine bytes and decrypt has returned their plaintext
C21_Witness ==
    /\ \E k \in 1..Len(key) : key[k] > 255
    /\ Len(inflight) = 2
    /\ inflight[1].op = "encrypt"
    /\ inflight[1].result.kind = "return"
    /\ Len(inflight[1].result.value) = 49
    /\ inflight[2].op = "decrypt"
    /\ inflight[2].pc = "done"
    /\ inflight[2].result.kind = "return"
    /\ inflight[2].result.value = inflight[1].arg

=============================================================================
